---------------------------- MODULE Spec2Model ----------------------------
(***************************************************************************)
(* A model of bibnorm.py, the BibTeX normalization tool.                   *)
(*                                                                         *)
(* Text is a sequence of one-character strings, and every string           *)
(* operation of the program (strip, find, count, split, slices, lower,     *)
(* isupper, capwords, the two page patterns, the month parse) is an        *)
(* operator on such sequences, computed the way Python computes it.        *)
(*                                                                         *)
(* Two specifications:                                                     *)
(*   Spec       one run of the program on one input file: __main__ opens   *)
(*              the files and reads the citation list, process_bib_files   *)
(*              scans the input one character per step and writes the      *)
(*              outputs;                                                   *)
(*   SpecEntry  process_entry as a function, applied to one entry and      *)
(*              then to its own output.                                    *)
(***************************************************************************)
EXTENDS Integers, Sequences, FiniteSets, TLC

(***************************************************************************)
(* Program tables (bibnorm.py, lines 42-61)                                *)
(***************************************************************************)
NOTCITED_FILE == "notcited.bib"

CATEGORIES ==
    << <<"a","r","t","i","c","l","e">>,
       <<"b","o","o","k">>,
       <<"b","o","o","k","l","e","t">>,
       <<"i","n","b","o","o","k">>,
       <<"i","n","c","o","l","l","e","c","t","i","o","n">>,
       <<"i","n","p","r","o","c","e","e","d","i","n","g","s">>,
       <<"m","a","n","u","a","l">>,
       <<"m","a","s","t","e","r","s","t","h","e","s","i","s">>,
       <<"p","h","d","t","h","e","s","i","s">>,
       <<"m","i","s","c">>,
       <<"t","e","c","h","r","e","p","o","r","t">>,
       <<"u","n","p","u","b","l","i","s","h","e","d">> >>

ATTRIBUTES ==
    << <<"a","u","t","h","o","r">>,
       <<"t","i","t","l","e">>,
       <<"j","o","u","r","n","a","l">>,
       <<"b","o","o","k","t","i","t","l","e">>,
       <<"i","n","s","t","i","t","u","t","i","o","n">>,
       <<"s","c","h","o","o","l">>,
       <<"k","e","y">>,
       <<"y","e","a","r">>,
       <<"m","o","n","t","h">>,
       <<"s","e","r","i","e","s">>,
       <<"v","o","l","u","m","e">>,
       <<"n","u","m","b","e","r">>,
       <<"p","a","g","e","s">>,
       <<"p","u","b","l","i","s","h","e","r">>,
       <<"e","d","i","t","i","o","n">>,
       <<"n","o","t","e">>,
       <<"h","o","w","p","u","b","l","i","s","h","e","d">>,
       <<"u","r","l">> >>

ATTRIBUTES_DROP ==
    << <<"l","o","c","a","t","i","o","n">>,
       <<"a","d","d","r","e","s","s">>,
       <<"o","r","g","a","n","i","z","a","t","i","o","n">>,
       <<"e","e">>,
       <<"d","o","i">>,
       <<"c","r","o","s","s","r","e","f">>,
       <<"b","i","b","s","o","u","r","c","e">>,
       <<"i","s","b","n">>,
       <<"i","s","s","n">>,
       <<"a","c","m","i","d">>,
       <<"n","u","m","p","a","g","e","s">>,
       <<"i","s","s","u","e","_","d","a","t","e">>,
       <<"k","e","y","w","o","r","d","s">> >>

\* Attribute names the program looks up by name.
aTitle        == <<"t","i","t","l","e">>
aNote         == <<"n","o","t","e">>
aUrl          == <<"u","r","l">>
aHowpublished == <<"h","o","w","p","u","b","l","i","s","h","e","d">>
aPages        == <<"p","a","g","e","s">>
aMonth        == <<"m","o","n","t","h">>
aPublisher    == <<"p","u","b","l","i","s","h","e","r">>
aNumber       == <<"n","u","m","b","e","r">>
aVolume       == <<"v","o","l","u","m","e">>
aEdition      == <<"e","d","i","t","i","o","n">>
cMisc         == <<"m","i","s","c">>

\* ATTR_ONLY_IN: "url" maps to the string "misc" (the parentheses make no
\* tuple), so its test is a substring test; "publisher" maps to a tuple.
ATTR_ONLY_IN_url == cMisc
ATTR_ONLY_IN_publisher ==
    << <<"a","r","t","i","c","l","e">>, <<"b","o","o","k">>,
       <<"i","n","b","o","o","k">>,
       <<"i","n","c","o","l","l","e","c","t","i","o","n">> >>

\* SYNTAX_CORRECTION_MONTH = {"Jnu": "Jun"}
SYNTAX_CORRECTION_MONTH_from == <<"J","n","u">>
SYNTAX_CORRECTION_MONTH_to   == <<"J","u","n">>

\* The month names datetime.strptime/strftime use for "%b" and "%B".
MonthAbbr ==
    << <<"J","a","n">>, <<"F","e","b">>, <<"M","a","r">>, <<"A","p","r">>,
       <<"M","a","y">>, <<"J","u","n">>, <<"J","u","l">>, <<"A","u","g">>,
       <<"S","e","p">>, <<"O","c","t">>, <<"N","o","v">>, <<"D","e","c">> >>

MonthName ==
    << <<"J","a","n","u","a","r","y">>, <<"F","e","b","r","u","a","r","y">>,
       <<"M","a","r","c","h">>, <<"A","p","r","i","l">>, <<"M","a","y">>,
       <<"J","u","n","e">>, <<"J","u","l","y">>, <<"A","u","g","u","s","t">>,
       <<"S","e","p","t","e","m","b","e","r">>,
       <<"O","c","t","o","b","e","r">>,
       <<"N","o","v","e","m","b","e","r">>,
       <<"D","e","c","e","m","b","e","r">> >>

(***************************************************************************)
(* Python's string operations on sequences of characters                  *)
(***************************************************************************)
Whitespace == {" ", "\n", "\t"}
Digits     == {"0","1","2","3","4","5","6","7","8","9"}
UpperCase  == <<"A","B","C","D","E","F","G","H","I","J","K","L","M",
                "N","O","P","Q","R","S","T","U","V","W","X","Y","Z">>
LowerCase  == <<"a","b","c","d","e","f","g","h","i","j","k","l","m",
                "n","o","p","q","r","s","t","u","v","w","x","y","z">>

Range(s) == {s[i] : i \in DOMAIN s}

IsUpperChar(c) == c \in Range(UpperCase)
IsLowerChar(c) == c \in Range(LowerCase)

LowerChar(c) ==
    IF IsUpperChar(c)
    THEN LowerCase[CHOOSE i \in DOMAIN UpperCase : UpperCase[i] = c]
    ELSE c

UpperChar(c) ==
    IF IsLowerChar(c)
    THEN UpperCase[CHOOSE i \in DOMAIN LowerCase : LowerCase[i] = c]
    ELSE c

\* str.lower()
Lower(s) == [i \in DOMAIN s |-> LowerChar(s[i])]

\* str.isupper(): some cased character, and no lower-case one
IsUpper(s) ==
    /\ \E i \in DOMAIN s : IsUpperChar(s[i])
    /\ \A i \in DOMAIN s : ~IsLowerChar(s[i])

\* str.capitalize()
Capitalize(w) ==
    [i \in DOMAIN w |-> IF i = 1 THEN UpperChar(w[i]) ELSE LowerChar(w[i])]

RECURSIVE LStrip(_)
LStrip(s) ==
    IF s # <<>> /\ Head(s) \in Whitespace THEN LStrip(Tail(s)) ELSE s

RECURSIVE RStrip(_)
RStrip(s) ==
    IF s # <<>> /\ s[Len(s)] \in Whitespace
    THEN RStrip(SubSeq(s, 1, Len(s) - 1))
    ELSE s

\* str.strip()
Strip(s) == RStrip(LStrip(s))

\* str.count(c) for a single character c
Count(s, c) == Cardinality({i \in DOMAIN s : s[i] = c})

\* str.find(c) for a single character c: 0-based index, -1 when absent
Find(s, c) ==
    IF \E i \in DOMAIN s : s[i] = c
    THEN (CHOOSE i \in DOMAIN s :
              s[i] = c /\ \A j \in 1..(i - 1) : s[j] # c) - 1
    ELSE -1

\* A slice bound as Python clamps it (negative bounds count from the end).
PyIdx(n, i) ==
    IF i < 0 THEN (IF n + i < 0 THEN 0 ELSE n + i)
    ELSE (IF i > n THEN n ELSE i)

\* s[lo:hi] with 0-based, possibly negative bounds
Slice(s, lo, hi) ==
    LET a == PyIdx(Len(s), lo)
        b == PyIdx(Len(s), hi)
    IN  IF a >= b THEN <<>> ELSE SubSeq(s, a + 1, b)

\* s[lo:]
SliceFrom(s, lo) == Slice(s, lo, Len(s))

\* str.split(c) for a single character c (keeps empty pieces)
RECURSIVE Split(_, _)
Split(s, c) ==
    LET i == Find(s, c)
    IN  IF i < 0 THEN <<s>>
        ELSE <<SubSeq(s, 1, i)>> \o Split(SubSeq(s, i + 2, Len(s)), c)

\* str.split() with no argument: the whitespace-separated words
RECURSIVE Words(_)
Words(s) ==
    LET t == LStrip(s)
    IN  IF t = <<>> THEN <<>>
        ELSE LET stops == {i \in DOMAIN t : t[i] \in Whitespace}
                 n == IF stops = {} THEN Len(t) + 1
                      ELSE CHOOSE i \in stops : \A j \in stops : i <= j
             IN  <<SubSeq(t, 1, n - 1)>> \o Words(SubSeq(t, n, Len(t)))

\* sep.join(parts)
RECURSIVE Join(_, _)
Join(parts, sep) ==
    IF parts = <<>> THEN <<>>
    ELSE IF Len(parts) = 1 THEN parts[1]
    ELSE parts[1] \o sep \o Join(Tail(parts), sep)

\* string.capwords(s)
CapWords(s) ==
    LET w == Words(s)
    IN  Join([i \in DOMAIN w |-> Capitalize(w[i])], <<" ">>)

\* needle in hay, for two strings
IsSubstr(needle, hay) ==
    \E i \in 0..(Len(hay) - Len(needle)) :
        SubSeq(hay, i + 1, i + Len(needle)) = needle

\* x in t, for a tuple t of strings
InTuple(x, t) == \E i \in DOMAIN t : t[i] = x

AllDigits(s) == s # <<>> /\ \A i \in DOMAIN s : s[i] \in Digits

\* re_pages_one = "^\d+$"
re_pages_one(s) == AllDigits(s)

\* re_pages_two = "^(\d+)\s*-+\s*(\d+)$": the two groups, or <<>> when the
\* text does not match
re_pages_two(s) ==
    LET n == Len(s)
        ok(i, j) ==       \* s[1..i] digits, s[j..n] digits, between: \s*-+\s*
            /\ 1 <= i /\ i < j /\ j <= n
            /\ AllDigits(SubSeq(s, 1, i))
            /\ AllDigits(SubSeq(s, j, n))
            /\ \E a \in (i + 1)..(j - 1) : \E b \in a..(j - 1) :
                  /\ \A k \in (i + 1)..(a - 1) : s[k] \in Whitespace
                  /\ \A k \in a..b : s[k] = "-"
                  /\ \A k \in (b + 1)..(j - 1) : s[k] \in Whitespace
    IN  IF \E i \in 1..n : \E j \in 1..n : ok(i, j)
        THEN LET p == CHOOSE p \in (1..n) \X (1..n) : ok(p[1], p[2])
             IN  <<SubSeq(s, 1, p[1]), SubSeq(s, p[2], n)>>
        ELSE <<>>

\* int(s) succeeds: an optional sign, then digits with single underscores
\* between them (s carries no outer whitespace where the program calls it)
IsInt(s) ==
    LET t == IF s # <<>> /\ s[1] \in {"+", "-"} THEN Tail(s) ELSE s
    IN  /\ t # <<>>
        /\ t[1] \in Digits /\ t[Len(t)] \in Digits
        /\ \A i \in DOMAIN t : t[i] \in Digits \cup {"_"}
        /\ \A i \in 1..(Len(t) - 1) : ~(t[i] = "_" /\ t[i + 1] = "_")


(***************************************************************************)
(* final_attrs: a Python dict, which keeps its keys in insertion order.    *)
(* Modelled as a sequence of <<name, value>> pairs with distinct names.    *)
(***************************************************************************)
DictHas(d, k) == \E i \in DOMAIN d : d[i][1] = k

DictGet(d, k) == d[CHOOSE i \in DOMAIN d : d[i][1] = k][2]

\* d[k] = v: a present key keeps its place, a new key goes last
DictSet(d, k, v) ==
    IF DictHas(d, k)
    THEN [i \in DOMAIN d |-> IF d[i][1] = k THEN <<k, v>> ELSE d[i]]
    ELSE Append(d, <<k, v>>)

\* d.pop(k), for a present key: the dict without it
DictPop(d, k) ==
    LET keep == {i \in DOMAIN d : d[i][1] # k}
        F[n \in 0..Len(d)] ==
            IF n = 0 THEN <<>>
            ELSE IF n \in keep THEN Append(F[n - 1], d[n]) ELSE F[n - 1]
    IN  F[Len(d)]

(***************************************************************************)
(* process_entry, Step 1: the shape check (lines 93-98).                   *)
(* "e" is the stripped entry; the exception it raises, or "".              *)
(***************************************************************************)
CheckEntry(e) ==
    IF e = <<>> THEN "IndexError"
    ELSE IF \/ e[1] # "@"
            \/ Find(e, "{") < 0
            \/ e[Len(e)] # "}"
            \/ Count(e, "{") # Count(e, "}")
         THEN "ErrorParsedEntry"
         ELSE ""

(***************************************************************************)
(* Step 2: the category (lines 100-108)                                    *)
(***************************************************************************)
Category(e) == Strip(Lower(Slice(e, 1, Find(e, "{"))))

IsComment(e) == ~InTuple(Category(e), CATEGORIES)

(***************************************************************************)
(* Step 3: the attribute splitter (lines 110-143).                         *)
(* One pass of the loop body over an item of content.split(","): st is     *)
(* [attrs, merged, exc].                                                   *)
(***************************************************************************)
MergeItem(st, item) ==
    IF st.exc # "" THEN st
    ELSE
    LET seg == IF st.merged = <<>> THEN item
               ELSE st.merged \o <<",", " ">> \o item
    IN  IF Count(seg, "{") # Count(seg, "}")
        THEN [st EXCEPT !.merged = seg]
        ELSE
        LET quote_splited_pieces == Split(seg, "\"")
            front == SubSeq(quote_splited_pieces, 1,
                            Len(quote_splited_pieces) - 1)
        IN  IF \E k \in DOMAIN front : front[k] = <<>>
            THEN [st EXCEPT !.merged = seg, !.exc = "IndexError"] \* piece[-1]
            ELSE
            LET quotecnt == Cardinality(
                    {k \in DOMAIN front : front[k][Len(front[k])] # "\\"})
            IN  IF quotecnt % 2 = 0
                THEN [st EXCEPT !.attrs = Append(@, seg), !.merged = <<>>]
                ELSE [st EXCEPT !.merged = seg]

RECURSIVE MergeItems(_, _)
MergeItems(st, items) ==
    IF items = <<>> THEN st
    ELSE MergeItems(MergeItem(st, Head(items)), Tail(items))

\* content: the text between the first "{" and the last character
Content(e) == Slice(e, Find(e, "{") + 1, -1)

\* [attrs |-> the accepted segments, merged |-> the unclosed rest, exc]
SplitAttrs(content) ==
    MergeItems([attrs |-> <<>>, merged |-> <<>>, exc |-> ""],
               Split(content, ","))

(***************************************************************************)
(* Step 4: one attribute line (lines 146-186).                             *)
(* st is [fa |-> final_attrs, warns |-> the diagnostics, exc].             *)
(***************************************************************************)
AttributeName(attrline) ==
    Lower(Strip(Slice(attrline, 0, Find(attrline, "="))))

\* lines 167-172: the right-hand side, unwrapped when it starts with a
\* quote or a brace (only the first character is looked at)
UnwrapValue(value) ==
    IF value[1] = "\"" \/ value[1] = "{"
    THEN Strip(Slice(value, 1, -1))
    ELSE value

\* lines 162-165
NotRequired(attribute, category) ==
    \/ attribute = aUrl /\ ~IsSubstr(category, ATTR_ONLY_IN_url)
    \/ attribute = aPublisher /\ ~InTuple(category, ATTR_ONLY_IN_publisher)

ExtractAttr(st, rawline, category) ==
    IF st.exc # "" THEN st
    ELSE
    LET attrline  == Strip(rawline)
        eq_index  == Find(attrline, "=")
        attribute == AttributeName(attrline)
        value0    == Strip(SliceFrom(attrline, eq_index + 1))
        value1    == Join(Words(UnwrapValue(value0)), <<" ">>)
        caps      == IsUpper(value1) /\ Len(Words(value1)) > 2
        value     == IF caps THEN CapWords(value1) ELSE value1
    IN  IF attrline = <<>> THEN st
        ELSE IF InTuple(attribute, ATTRIBUTES_DROP) THEN st
        ELSE IF ~InTuple(attribute, ATTRIBUTES)
             THEN [st EXCEPT !.warns = @ \cup {"unknown attribute"}]
        ELSE IF NotRequired(attribute, category) THEN st
        ELSE IF value0 = <<>>
             THEN [st EXCEPT !.exc = "IndexError"]          \* value[0]
        ELSE IF value1 = <<>> THEN st
        ELSE [st EXCEPT
                !.fa = DictSet(@, attribute, value),
                !.warns = IF caps THEN @ \cup {"all upper"} ELSE @]

RECURSIVE ExtractAttrs(_, _, _)
ExtractAttrs(st, attrs, category) ==
    IF attrs = <<>> THEN st
    ELSE ExtractAttrs(ExtractAttr(st, Head(attrs), category),
                      Tail(attrs), category)

(***************************************************************************)
(* Step 5: the corrections (lines 188-228)                                 *)
(***************************************************************************)
\* lines 189-194
CorrectTitle(st, category) ==
    IF DictHas(st.fa, aTitle) THEN st
    ELSE IF category = cMisc /\ DictHas(st.fa, aNote)
         THEN [st EXCEPT
                 !.fa = DictSet(DictPop(@, aNote), aTitle,
                                DictGet(st.fa, aNote))]
         ELSE [st EXCEPT !.warns = @ \cup {"no title"}]

\* "\\url{{{0}}}, accessed {1}".format(value_to_move, time.strftime("%B %Y"))
UrlNote(value_to_move, now) ==
    <<"\\","u","r","l","{">> \o value_to_move \o
    <<"}",","," ","a","c","c","e","s","s","e","d"," ">> \o now

\* lines 196-205
CorrectUrl(st, now) ==
    IF DictHas(st.fa, aUrl) \/ DictHas(st.fa, aHowpublished)
    THEN LET from == IF DictHas(st.fa, aUrl) THEN aUrl ELSE aHowpublished
             value_to_move == DictGet(st.fa, from)
         IN  [st EXCEPT
                !.fa = DictSet(DictPop(@, from), aNote,
                               UrlNote(value_to_move, now)),
                !.warns = IF DictHas(st.fa, aNote)
                          THEN @ \cup {"note replaced"} ELSE @]
    ELSE st

\* lines 207-215
CorrectPages(st) ==
    IF ~DictHas(st.fa, aPages) THEN st
    ELSE LET pages_value == DictGet(st.fa, aPages)
             groups == re_pages_two(pages_value)
         IN  IF re_pages_one(pages_value) THEN st
             ELSE IF groups # <<>>
                  THEN [st EXCEPT
                          !.fa = DictSet(@, aPages,
                                         Join(groups, <<"-","-">>))]
                  ELSE [st EXCEPT !.warns = @ \cup {"pages format"}]

\* datetime.strptime(month_value, "%b"): the month number, 0 for ValueError
\* (the name is matched whole, letter case ignored)
ParseMonth(month_value) ==
    IF \E m \in DOMAIN MonthAbbr : Lower(MonthAbbr[m]) = Lower(month_value)
    THEN CHOOSE m \in DOMAIN MonthAbbr :
             Lower(MonthAbbr[m]) = Lower(month_value)
    ELSE 0

\* lines 217-225
CorrectMonth(st, if_shorten_entry) ==
    IF st.exc # "" \/ ~DictHas(st.fa, aMonth) THEN st
    ELSE LET first3 == Slice(DictGet(st.fa, aMonth), 0, 3)
             month_value == IF first3 = SYNTAX_CORRECTION_MONTH_from
                            THEN SYNTAX_CORRECTION_MONTH_to ELSE first3
             mon == ParseMonth(month_value)
         IN  IF mon = 0 THEN [st EXCEPT !.exc = "ValueError"]
             ELSE [st EXCEPT
                     !.fa = DictSet(@, aMonth,
                                    IF if_shorten_entry THEN MonthAbbr[mon]
                                    ELSE MonthName[mon])]

\* lines 75-86 and 227-228
check_int_attr(st) ==
    IF \E a \in {aNumber, aVolume, aEdition} :
           DictHas(st.fa, a) /\ ~IsInt(DictGet(st.fa, a))
    THEN [st EXCEPT !.warns = @ \cup {"int format"}]
    ELSE st

CorrectAttrs(st, category, if_shorten_entry, now) ==
    IF st.exc # "" THEN st
    ELSE check_int_attr(
            CorrectMonth(
               CorrectPages(CorrectUrl(CorrectTitle(st, category), now)),
               if_shorten_entry))

(***************************************************************************)
(* Step 6: the new format (lines 230-236)                                  *)
(***************************************************************************)
\* "{0:10}".format(attribute): left-justified in ten columns
Pad10(name) ==
    name \o [i \in 1..(IF Len(name) < 10 THEN 10 - Len(name) ELSE 0) |-> " "]

\* The loop of line 232 run over the dict itself instead of ATTRIBUTES.
EmittedAttrs_insertion_order(fa) == fa

\* the (name, value) pairs written, in the order they are written
EmittedAttrs(fa) ==
    LET F[n \in 0..Len(ATTRIBUTES)] ==
            IF n = 0 THEN <<>>
            ELSE IF DictHas(fa, ATTRIBUTES[n])
                 THEN Append(F[n - 1],
                             <<ATTRIBUTES[n], DictGet(fa, ATTRIBUTES[n])>>)
                 ELSE F[n - 1]
    IN  F[Len(ATTRIBUTES)]

AttrLine(pair) ==
    <<" "," "," "," ">> \o Pad10(pair[1]) \o <<" ","="," ","{">> \o
    pair[2] \o <<"}",",">>

FormatEntry(category, anchor_word, fa) ==
    LET em == EmittedAttrs(fa)
        final_entry_lines ==
            << <<"@">> \o category \o <<"{">> \o anchor_word \o <<",">> >>
            \o [i \in DOMAIN em |-> AttrLine(em[i])]
            \o << <<"}">> >>
    IN  Join(final_entry_lines, <<"\n">>)

(***************************************************************************)
(* process_entry (lines 68-239).  The result is a record:                  *)
(*   kind   "ok" (returned), "drop" (DropComment) or "raise"               *)
(*   exc    the exception raised, "" otherwise                             *)
(*   text, anchor, title   the three values returned                       *)
(*   warns  the diagnostics logged                                         *)
(***************************************************************************)
Raised(exc, warns) ==
    [kind |-> "raise", exc |-> exc, text |-> <<>>, anchor |-> <<>>,
     title |-> <<>>, warns |-> warns]

Dropped ==
    [kind |-> "drop", exc |-> "", text |-> <<>>, anchor |-> <<>>,
     title |-> <<>>, warns |-> {}]

\* Steps 3 and 4 on a checked entry of a known category
ExtractedAttrs(e) ==
    LET sp == SplitAttrs(Content(e))
        w0 == IF sp.merged # <<>> THEN {"unmatched bracket"} ELSE {}
    IN  IF sp.exc # "" THEN [fa |-> <<>>, warns |-> {}, exc |-> sp.exc]
        ELSE IF sp.attrs = <<>>                              \* attrs[0]
             THEN [fa |-> <<>>, warns |-> w0, exc |-> "IndexError"]
        ELSE ExtractAttrs([fa |-> <<>>, warns |-> w0, exc |-> ""],
                          Tail(sp.attrs), Category(e))

\* anchor_word (line 142), for an entry whose split yields a segment
AnchorWord(e) == Strip(SplitAttrs(Content(e)).attrs[1])

\* Steps 6 and 7 on the corrected attributes st of an entry e
ReturnEntry(e, st) ==
    IF st.exc # "" THEN Raised(st.exc, st.warns)
    ELSE IF ~DictHas(st.fa, aTitle)          \* final_attrs["title"]
         THEN Raised("KeyError", st.warns)
    ELSE [kind |-> "ok", exc |-> "",
          text |-> FormatEntry(Category(e), AnchorWord(e), st.fa),
          anchor |-> AnchorWord(e),
          title |-> DictGet(st.fa, aTitle),
          warns |-> st.warns]

\* Steps 3 to 7 on a checked entry e
NormalizeEntry(e, if_shorten_entry, now) ==
    ReturnEntry(e, CorrectAttrs(ExtractedAttrs(e), Category(e),
                                if_shorten_entry, now))

\* The category test placed after the attribute pass instead of before it.
LateCategory(e, r) ==
    IF CheckEntry(e) # "" THEN Raised(CheckEntry(e), {})
    ELSE IF r.kind = "raise" THEN r
    ELSE IF IsComment(e) THEN Dropped
    ELSE r

process_entry_late_category(oneline_entry, if_shorten_entry, now) ==
    LateCategory(Strip(oneline_entry),
                 NormalizeEntry(Strip(oneline_entry), if_shorten_entry, now))

\* Steps 1 and 2, then the rest, on the stripped entry e
ProcessStripped(e, if_shorten_entry, now) ==
    IF CheckEntry(e) # "" THEN Raised(CheckEntry(e), {})
    ELSE IF IsComment(e) THEN Dropped
    ELSE NormalizeEntry(e, if_shorten_entry, now)

process_entry(oneline_entry, if_shorten_entry, now) ==
    ProcessStripped(Strip(oneline_entry), if_shorten_entry, now)

(***************************************************************************)
(* analyze_aux (lines 311-319).  A citation-list file is a sequence of     *)
(* lines.                                                                  *)
(***************************************************************************)
BibciteMarker == <<"\\","b","i","b","c","i","t","e","{">>

\* re_aux_citation = "\\bibcite\{([^\}]+)\}", searched in the stripped
\* line: the group of the leftmost match, or <<>> when nothing matches
re_aux_citation(line) ==
    LET s == Strip(line)
        m == Len(BibciteMarker)
        close(i) == {j \in (i + m)..Len(s) : s[j] = "}"}
        first_close(i) == CHOOSE j \in close(i) : \A k \in close(i) : j <= k
        starts == {i \in 1..Len(s) :
                      /\ i + m - 1 <= Len(s)
                      /\ SubSeq(s, i, i + m - 1) = BibciteMarker
                      /\ close(i) # {}
                      /\ first_close(i) > i + m}
    IN  IF starts = {} THEN <<>>
        ELSE LET i == CHOOSE i \in starts : \A k \in starts : i <= k
             IN  SubSeq(s, i + m, first_close(i) - 1)

\* the anchors list built by the loop of lines 314-317
RECURSIVE AuxAnchors(_)
AuxAnchors(lines) ==
    IF lines = <<>> THEN <<>>
    ELSE (IF re_aux_citation(Head(lines)) # <<>>
          THEN <<re_aux_citation(Head(lines))>> ELSE <<>>)
         \o AuxAnchors(Tail(lines))

(***************************************************************************)
(* The inputs of a run                                                     *)
(***************************************************************************)
MaxChunks == 2

\* Pieces of bibliography text; an input file is up to MaxChunks of them.
Chunks ==
    { <<"@","b","o","o","k","{","a",",","t","i","t","l","e","=","{","T","}","}">>,
      <<"@","m","i","s","c","{","b",",","n","o","t","e","=","{","n","}","}">>,
      <<"@","f","o","o","{","c",",","t","i","t","l","e","=","}">>,
      <<"{","x","}">>,
      <<"@","b","o","o","k","{","d",",","y","e","a","r","=","{","1","}","}">>,
      <<"@","b","o","o","k","{","e",",","t","i","t","l","e","=","{","V","}",",",
        "m","o","n","t","h","=","{","x","}","}">>,
      <<"@","b","o","o","k","{","f","@","g","}">>,
      <<"\n">> }

RECURSIVE Concat(_)
Concat(parts) ==
    IF parts = <<>> THEN <<>> ELSE Head(parts) \o Concat(Tail(parts))

InputTexts ==
    {Concat(q) : q \in UNION {[1..n -> Chunks] : n \in 0..MaxChunks}}

\* args.cited: <<>> without the option, else <<f>> for the file named, f the
\* lines of that file
NoAux == <<>>
AuxFiles ==
    { << <<"\\","r","e","l","a","x">> >>,
      << <<"\\","b","i","b","c","i","t","e","{","a","}","{","1","}">> >>,
      << <<"\\","b","i","b","c","i","t","e","{","z","}","{","1","}">> >>,
      << <<"\\","r","e","l","a","x">>,
         <<"\\","b","i","b","c","i","t","e","{","z","}","{","1","}">>,
         <<" ","\\","b","i","b","c","i","t","e","{","b","}","{","2","}">> >> }

\* what a file holds before the run when it already exists; Absent stands
\* for a file that does not exist (it is no text)
OldText == <<"o","l","d">>
Absent  == <<"absent">>

\* time.strftime("%B %Y") at the moment it is called
Stamps == { <<"M","a","y"," ","2","0","2","4">>,
            <<"J","u","n","e"," ","2","0","2","4">> }

(***************************************************************************)
(* The state of a run                                                      *)
(***************************************************************************)
VARIABLES
    pc,                   \* where the run is
    args,                 \* the parsed command line
    fs,                   \* the files and the output stream
    cited,                \* cited_anchors
    oneline_content,      \* the text being scanned
    index,                \* the loop index of line 264 (0-based)
    half_bracket,
    index_of_entry_start,
    final_entries,
    abandoned_entries,
    title2anchor,
    exc,                  \* <<exception, function>> once raised, else <<>>
    spans,                \* history: the <<start, end>> handed to process_entry
    results,              \* history: what process_entry answered for each
    \* ---- the state of SpecEntry ----
    ecat,                 \* the category written in the entry
    esegs,                \* the attribute assignments written in it
    eshort,               \* if_shorten_entry
    epc,                  \* "input", "normalized", "renormalized"
    first,                \* process_entry of the entry
    second                \* process_entry of first.text

runVars == <<pc, args, fs, cited, oneline_content, index, half_bracket,
             index_of_entry_start, final_entries, abandoned_entries,
             title2anchor, exc, spans, results>>
entryVars == <<ecat, esegs, eshort, epc, first, second>>
vars == <<runVars, entryVars>>

\* the file system before the run, for an input text
InitialFs(text) ==
    [bib |-> text, bak |-> Absent, out |-> OldText, notcited |-> OldText,
     stdout |-> <<>>]

EntryIdle ==
    /\ ecat = <<>> /\ esegs = <<>> /\ eshort = FALSE /\ epc = "idle"
    /\ first = Dropped /\ second = Dropped

Init ==
    /\ pc = "main"
    /\ args \in [inplace : BOOLEAN, output : BOOLEAN,
                 cited : {NoAux} \cup {<<f>> : f \in AuxFiles},
                 short : BOOLEAN, titles : BOOLEAN]
    /\ ~(args.inplace /\ args.output)
    /\ \E text \in InputTexts : fs = InitialFs(text)
    /\ cited = <<>>
    /\ oneline_content = <<>>
    /\ index = 0
    /\ half_bracket = 0
    /\ index_of_entry_start = 0
    /\ final_entries = <<>>
    /\ abandoned_entries = <<>>
    /\ title2anchor = <<>>
    /\ exc = <<>>
    /\ spans = <<>>
    /\ results = <<>>
    /\ EntryIdle

(***************************************************************************)
(* __main__ (lines 358-383)                                                *)
(***************************************************************************)
\* lines 358-364: one file edited in place
OpenInplace ==
    /\ pc = "main" /\ args.inplace
    /\ fs' = [fs EXCEPT !.bak = fs.bib, !.bib = <<>>]
    /\ pc' = "aux"
    /\ UNCHANGED <<title2anchor, args, cited, oneline_content, index, half_bracket,
                   index_of_entry_start, final_entries, abandoned_entries,
                   exc, spans, results, entryVars>>

\* lines 368-373: a named output file
OpenOutput ==
    /\ pc = "main" /\ ~args.inplace /\ args.output
    /\ fs' = [fs EXCEPT !.out = <<>>]
    /\ pc' = "aux"
    /\ UNCHANGED <<title2anchor, args, cited, oneline_content, index, half_bracket,
                   index_of_entry_start, final_entries, abandoned_entries,
                   exc, spans, results, entryVars>>

\* lines 368, 374-375: the default output stream
OpenStdout ==
    /\ pc = "main" /\ ~args.inplace /\ ~args.output
    /\ pc' = "aux"
    /\ UNCHANGED <<title2anchor, args, fs, cited, oneline_content, index, half_bracket,
                   index_of_entry_start, final_entries, abandoned_entries,
                   exc, spans, results, entryVars>>

\* lines 377-378 and 311-319, a file with some citation
AnalyzeAux ==
    /\ pc = "aux" /\ args.cited # NoAux
    /\ LET anchors == AuxAnchors(args.cited[1])
       IN  /\ anchors # <<>>
           /\ cited' = anchors
           /\ fs' = [fs EXCEPT                    \* print(anchors[-1])
                       !.stdout = @ \o anchors[Len(anchors)] \o <<"\n">>]
    /\ pc' = "read"
    /\ UNCHANGED <<title2anchor, args, oneline_content, index, half_bracket,
                   index_of_entry_start, final_entries, abandoned_entries,
                   exc, spans, results, entryVars>>

\* line 318 on an empty list: anchors[-1]
AnalyzeAuxRaises ==
    /\ pc = "aux" /\ args.cited # NoAux
    /\ AuxAnchors(args.cited[1]) = <<>>
    /\ pc' = "fatal"
    /\ exc' = <<"IndexError", "analyze_aux">>
    /\ UNCHANGED <<title2anchor, args, fs, cited, oneline_content, index, half_bracket,
                   index_of_entry_start, final_entries, abandoned_entries,
                   spans, results, entryVars>>

\* lines 379-380
NoCitationList ==
    /\ pc = "aux" /\ args.cited = NoAux
    /\ cited' = <<>>
    /\ pc' = "read"
    /\ UNCHANGED <<title2anchor, args, fs, oneline_content, index, half_bracket,
                   index_of_entry_start, final_entries, abandoned_entries,
                   exc, spans, results, entryVars>>

(***************************************************************************)
(* process_bib_files (lines 241-306)                                       *)
(***************************************************************************)
\* lines 248-262
ReadBibFiles ==
    /\ pc = "read"
    /\ oneline_content' = IF args.inplace THEN fs.bak ELSE fs.bib
    /\ final_entries' = <<>>
    /\ abandoned_entries' = <<>>
    /\ title2anchor' = <<>>
    /\ half_bracket' = 0
    /\ index_of_entry_start' = 0
    /\ index' = 0
    /\ pc' = "scan"
    /\ UNCHANGED <<args, fs, cited, exc, spans, results, entryVars>>

Scanning == pc = "scan" /\ index < Len(oneline_content)
char == oneline_content[index + 1]

\* lines 266, 269-270
ScanAt ==
    /\ Scanning /\ char = "@" /\ half_bracket = 0
    /\ index_of_entry_start' = index
    /\ index' = index + 1
    /\ UNCHANGED <<title2anchor, pc, args, fs, cited, oneline_content, half_bracket,
                   final_entries, abandoned_entries, exc, spans, results,
                   entryVars>>

\* lines 266-268
ScanAtRaises ==
    /\ Scanning /\ char = "@" /\ half_bracket # 0
    /\ pc' = "fatal"
    /\ exc' = <<"ErrorBracketNotMatch", "process_bib_files">>
    /\ UNCHANGED <<title2anchor, args, fs, cited, oneline_content, index, half_bracket,
                   index_of_entry_start, final_entries, abandoned_entries,
                   spans, results, entryVars>>

\* lines 271-272
ScanOpen ==
    /\ Scanning /\ char = "{"
    /\ half_bracket' = half_bracket + 1
    /\ index' = index + 1
    /\ UNCHANGED <<title2anchor, pc, args, fs, cited, oneline_content,
                   index_of_entry_start, final_entries, abandoned_entries,
                   exc, spans, results, entryVars>>

\* lines 273-275, the depth not back to 0
ScanClose ==
    /\ Scanning /\ char = "}" /\ half_bracket - 1 # 0
    /\ half_bracket' = half_bracket - 1
    /\ index' = index + 1
    /\ UNCHANGED <<title2anchor, pc, args, fs, cited, oneline_content,
                   index_of_entry_start, final_entries, abandoned_entries,
                   exc, spans, results, entryVars>>

\* the span of lines 277-279 and what process_entry makes of it
AtEntryEnd == Scanning /\ char = "}" /\ half_bracket - 1 = 0
Span == Slice(oneline_content, index_of_entry_start, index + 1)
Processed(now) == process_entry(Span, args.short, now)

\* line 283
IsCited(anchor) == cited = <<>> \/ InTuple(anchor, cited)

\* lines 283-284 and 287, for the result r of process_entry
KeepCited(r) ==
    /\ r.kind = "ok"
    /\ IsCited(r.anchor)
    /\ final_entries' = Append(final_entries, r.text)
    /\ title2anchor' = DictSet(title2anchor, r.title, r.anchor)
    /\ results' = Append(results, r)

\* lines 285-287, for the result r of process_entry
KeepNotCited(r) ==
    /\ r.kind = "ok"
    /\ ~IsCited(r.anchor)
    /\ abandoned_entries' = Append(abandoned_entries, r.text)
    /\ title2anchor' = DictSet(title2anchor, r.title, r.anchor)
    /\ results' = Append(results, r)

\* lines 280-281, for the result r of process_entry
SkipComment(r) ==
    /\ r.kind = "drop"
    /\ results' = Append(results, r)

\* an exception of process_entry that nothing catches
Propagate(r) ==
    /\ r.kind = "raise"
    /\ results' = Append(results, r)
    /\ exc' = <<r.exc, "process_entry">>

\* lines 273-279 and 283-287: an entry to keep
EntryCited ==
    /\ AtEntryEnd
    /\ \E now \in Stamps : KeepCited(Processed(now))
    /\ spans' = Append(spans, <<index_of_entry_start, index>>)
    /\ half_bracket' = 0
    /\ index' = index + 1
    /\ UNCHANGED <<pc, args, fs, cited, oneline_content,
                   index_of_entry_start, abandoned_entries, exc, entryVars>>

\* lines 273-279 and 283-287: an entry that is not cited
EntryNotCited ==
    /\ AtEntryEnd
    /\ \E now \in Stamps : KeepNotCited(Processed(now))
    /\ spans' = Append(spans, <<index_of_entry_start, index>>)
    /\ half_bracket' = 0
    /\ index' = index + 1
    /\ UNCHANGED <<pc, args, fs, cited, oneline_content,
                   index_of_entry_start, final_entries, exc, entryVars>>

\* lines 273-281: DropComment, caught
EntryDropped ==
    /\ AtEntryEnd
    /\ \E now \in Stamps : SkipComment(Processed(now))
    /\ spans' = Append(spans, <<index_of_entry_start, index>>)
    /\ half_bracket' = 0
    /\ index' = index + 1
    /\ UNCHANGED <<title2anchor, pc, args, fs, cited, oneline_content,
                   index_of_entry_start, final_entries, abandoned_entries,
                   exc, entryVars>>

\* lines 273-279: any other exception of process_entry leaves the loop
EntryRaises ==
    /\ AtEntryEnd
    /\ \E now \in Stamps : Propagate(Processed(now))
    /\ spans' = Append(spans, <<index_of_entry_start, index>>)
    /\ half_bracket' = 0
    /\ pc' = "fatal"
    /\ UNCHANGED <<title2anchor, args, fs, cited, oneline_content, index,
                   index_of_entry_start, final_entries, abandoned_entries,
                   entryVars>>

\* line 264: any other character
ScanOther ==
    /\ Scanning /\ char \notin {"@", "{", "}"}
    /\ index' = index + 1
    /\ UNCHANGED <<title2anchor, pc, args, fs, cited, oneline_content, half_bracket,
                   index_of_entry_start, final_entries, abandoned_entries,
                   exc, spans, results, entryVars>>

\* "\n\n".join(entries)
JoinEntries(entries) == Join(entries, <<"\n", "\n">>)

\* lines 298-301: what print writes for the titles
TitlesHeader ==
    <<"\n","#","#","#","#"," ","P","r","i","n","t"," ","A","l","l"," ",
      "T","i","t","l","e","s"," ","#","#","#","#","\n">>

RECURSIVE TitleLines(_)
TitleLines(d) ==
    IF d = <<>> THEN <<>>
    ELSE Head(d)[1] \o <<"\n">> \o TitleLines(Tail(d))

\* line 292, for the joined entries
WritePrimary(f, primary) ==
    IF args.inplace THEN [f EXCEPT !.bib = @ \o primary]
    ELSE IF args.output THEN [f EXCEPT !.out = @ \o primary]
    ELSE [f EXCEPT !.stdout = @ \o primary]

\* lines 294-296
WriteNotCited(f) ==
    IF abandoned_entries # <<>>
    THEN [f EXCEPT !.notcited = JoinEntries(abandoned_entries)]
    ELSE f

\* lines 298-303
PrintTitles(f) ==
    [f EXCEPT !.stdout =
        @ \o (IF args.titles THEN TitlesHeader \o TitleLines(title2anchor)
              ELSE <<>>)
          \o <<"\n">>]

\* lines 289-306 (dedup does nothing): the outputs
WriteOutputs ==
    /\ pc = "scan" /\ index = Len(oneline_content)
    /\ fs' = PrintTitles(
               WriteNotCited(WritePrimary(fs, JoinEntries(final_entries))))
    /\ pc' = "done"
    /\ UNCHANGED <<title2anchor, args, cited, oneline_content, index,
                   half_bracket, index_of_entry_start, final_entries,
                   abandoned_entries, exc, spans, results, entryVars>>

Next ==
    \/ OpenInplace \/ OpenOutput \/ OpenStdout
    \/ AnalyzeAux \/ AnalyzeAuxRaises \/ NoCitationList
    \/ ReadBibFiles
    \/ ScanAt \/ ScanAtRaises \/ ScanOpen \/ ScanClose
    \/ EntryCited \/ EntryNotCited \/ EntryDropped \/ EntryRaises
    \/ ScanOther
    \/ WriteOutputs

Spec == Init /\ [][Next]_vars

(***************************************************************************)
(* SpecEntry: process_entry applied to one entry, and then to what it      *)
(* returned.  The entry is "@" category "{k" and up to MaxAttrs attribute  *)
(* assignments, each after a comma, then "}".                              *)
(***************************************************************************)
MaxAttrs == 2

sTitle        == <<"t","i","t","l","e","=","{","T","}">>
sTitleQuoted  == <<"T","I","T","L","E"," ","="," ","\"","A",",","B","\"">>
sYearBare     == <<"y","e","a","r","=">>
sYearQuotes   == <<"y","e","a","r","=","\"","\"">>
sNoteEmpty    == <<"n","o","t","e","=","{","}">>
sPagesRange   == <<"p","a","g","e","s","=","{","1","-","2","}">>
sPagesComma   == <<"p","a","g","e","s","=","{","1",",","2","}">>
sPagesOne     == <<"p","a","g","e","s","=","{","7","}">>
sMonthJnu     == <<"m","o","n","t","h","=","{","J","n","u","}">>
sUrl          == <<"u","r","l","=","{","u","}">>
sHow          == <<"h","o","w","p","u","b","l","i","s","h","e","d","=","{","h","}">>
sNote         == <<"n","o","t","e","=","{","n","}">>
sDoi          == <<"d","o","i","=","{","d","}">>
sFoo          == <<"f","o","o","=","{","f","}">>
sTitleTail    == <<"t","i","t","l","e","=","{","T","}"," ","x">>
sVolume       == <<"v","o","l","u","m","e","=","{","v","}">>
sCaps         == <<"t","i","t","l","e","=","{","A","A"," ","B","B"," ","C","C","}">>
sAuthor       == <<"a","u","t","h","o","r","=","{","A","}">>

AttrPool ==
    {sTitle, sTitleQuoted, sYearBare, sYearQuotes, sNoteEmpty, sPagesRange,
     sPagesComma, sPagesOne, sMonthJnu, sUrl, sHow, sNote, sDoi, sFoo,
     sTitleTail, sVolume, sCaps, sAuthor}

EntryCategories == { <<"b","o","o","k">>, <<"M","i","s","c">> }

EntryAnchor == <<"k">>

RECURSIVE CommaSegs(_)
CommaSegs(segs) ==
    IF segs = <<>> THEN <<>>
    ELSE <<",">> \o Head(segs) \o CommaSegs(Tail(segs))

BuildEntry(cat, segs) ==
    <<"@">> \o cat \o <<"{">> \o EntryAnchor \o CommaSegs(segs) \o <<"}">>

Entry == BuildEntry(ecat, esegs)

RunIdle ==
    /\ pc = "idle"
    /\ args = [inplace |-> FALSE, output |-> FALSE, cited |-> NoAux,
               short |-> FALSE, titles |-> FALSE]
    /\ fs = InitialFs(<<>>)
    /\ cited = <<>>
    /\ oneline_content = <<>>
    /\ index = 0
    /\ half_bracket = 0
    /\ index_of_entry_start = 0
    /\ final_entries = <<>>
    /\ abandoned_entries = <<>>
    /\ title2anchor = <<>>
    /\ exc = <<>>
    /\ spans = <<>>
    /\ results = <<>>

InitEntry ==
    /\ RunIdle
    /\ ecat \in EntryCategories
    /\ esegs \in UNION {[1..n -> AttrPool] : n \in 0..MaxAttrs}
    /\ eshort \in BOOLEAN
    /\ epc = "input"
    /\ first = Dropped
    /\ second = Dropped

\* process_entry on the entry
Normalize ==
    /\ epc = "input"
    /\ \E now \in Stamps : first' = process_entry(Entry, eshort, now)
    /\ epc' = "normalized"
    /\ UNCHANGED <<runVars, ecat, esegs, eshort, second>>

\* process_entry on the text it returned
Renormalize ==
    /\ epc = "normalized" /\ first.kind = "ok"
    /\ \E now \in Stamps : second' = process_entry(first.text, eshort, now)
    /\ epc' = "renormalized"
    /\ UNCHANGED <<runVars, ecat, esegs, eshort, first>>

NextEntry == Normalize \/ Renormalize

SpecEntry == InitEntry /\ [][NextEntry]_vars

(***************************************************************************)
(* What the claims speak of                                               *)
(***************************************************************************)
\* the text of the i-th span handed to process_entry
SpanText(i) == Slice(oneline_content, spans[i][1], spans[i][2] + 1)

\* the results that returned an entry
OkResults == {i \in DOMAIN results : results[i].kind = "ok"}

\* the category as the specification defines it: the text between "@" and
\* the first "{", lower-cased and trimmed
WrittenCategory(s) == Strip(Lower(Slice(s, 1, Find(s, "{"))))

UnknownCategory(s) ==
    s # <<>> /\ s[1] = "@" /\ ~InTuple(WrittenCategory(s), CATEGORIES)

\* the attribute names of a serialized entry, read off its lines
EmittedNames(text) ==
    LET lines == Split(text, "\n")
    IN  [i \in 1..(Len(lines) - 2) |->
            Strip(Slice(lines[i + 1], 0, Find(lines[i + 1], "=")))]

\* the value a serialized entry gives to an attribute it holds
EmittedValue(text, name) ==
    LET lines == Split(text, "\n")
        n == CHOOSE i \in 2..(Len(lines) - 1) :
                 Strip(Slice(lines[i], 0, Find(lines[i], "="))) = name
    IN  Slice(lines[n], Find(lines[n], "{") + 1, -2)

CanonicalPosition(name) ==
    CHOOSE i \in DOMAIN ATTRIBUTES : ATTRIBUTES[i] = name

Canonical(text) ==
    LET names == EmittedNames(text)
    IN  /\ \A i \in DOMAIN names :
              /\ InTuple(names[i], ATTRIBUTES)
              /\ ~InTuple(names[i], ATTRIBUTES_DROP)
        /\ \A i \in DOMAIN names : \A j \in DOMAIN names :
              i < j => CanonicalPosition(names[i]) < CanonicalPosition(names[j])

\* the value written in a brace-wrapped assignment of the pool
WrittenValue(seg) == Strip(Slice(seg, Find(seg, "{") + 1, -1))

\* the pages rule of the specification
ExpectedPages(v) ==
    IF AllDigits(v) THEN v
    ELSE IF re_pages_two(v) # <<>>
         THEN re_pages_two(v)[1] \o <<"-","-">> \o re_pages_two(v)[2]
         ELSE v

MalformedPages(v) == ~AllDigits(v) /\ re_pages_two(v) = <<>>

PagesSegs == {sPagesRange, sPagesComma, sPagesOne}

\* assignments that only call for a format warning
WarningSegs ==
    {sFoo, sYearBare, sYearQuotes, sNoteEmpty, sPagesComma, sVolume, sCaps,
     sNote, sUrl, sHow}

\* assignments whose value is wrapped in braces or quotes
WrappedSegs == AttrPool \ {sYearBare, sTitleTail}

\* a span with no title after the attribute pass, no misc/note fallback,
\* and nothing else that stops it
Titleless(s) ==
    LET e == Strip(s)
    IN  /\ CheckEntry(e) = ""
        /\ ~IsComment(e)
        /\ ExtractedAttrs(e).exc = ""
        /\ ~DictHas(ExtractedAttrs(e).fa, aTitle)
        /\ ~(Category(e) = cMisc /\ DictHas(ExtractedAttrs(e).fa, aNote))
        /\ ~DictHas(ExtractedAttrs(e).fa, aMonth)

Accessed == <<"a","c","c","e","s","s","e","d"," ">>

(***************************************************************************)
(* The claims                                                              *)
(***************************************************************************)

\* C1: when a run ends in a fatal condition (an "@" at non-zero depth, a
\* span failing the shape check, a month that does not parse), the input
\* file, the named output file and the not-cited file are as they were
\* before the run, in every output mode.
C1_NoFileTouchedOnFatal ==
    (pc = "fatal" /\ exc[2] \in {"process_bib_files", "process_entry"}
       /\ exc[1] \in {"ErrorBracketNotMatch", "ErrorParsedEntry", "ValueError"})
    => /\ fs.bib = InitialFs(oneline_content).bib
       /\ fs.bak = InitialFs(oneline_content).bak
       /\ fs.out = InitialFs(oneline_content).out
       /\ fs.notcited = InitialFs(oneline_content).notcited

\* C2: every span handed to entry processing starts at its own "@", and
\* no character of the input belongs to two spans (so a brace group with no
\* "@" of its own yields no span).
C2_OneSpanPerGroup ==
    \A i \in DOMAIN spans :
        /\ oneline_content[spans[i][1] + 1] = "@"
        /\ \A j \in 1..(i - 1) : spans[j][2] < spans[i][1]

\* C3: an entry that has no title after the attribute pass, and to which
\* the misc/note fallback does not apply, is still emitted.
C3_TitlelessEmitted ==
    \A i \in DOMAIN results :
        Titleless(SpanText(i)) => results[i].kind = "ok"

\* C4: an entry made of a title and of assignments that only call for a
\* format warning (unknown attribute, empty value written {} or "" or with
\* nothing after the "=", malformed pages, non-integer volume, all-caps
\* value, overwritten note) is still produced.
C4_FormatWarningsNotFatal ==
    (/\ epc \in {"normalized", "renormalized"}
     /\ Len(esegs) >= 1 /\ esegs[1] = sTitle
     /\ \A i \in 2..Len(esegs) : esegs[i] \in WarningSegs)
    => first.kind = "ok"

\* C5: with a citation-list file, whatever set of anchors it yields (the
\* empty set included), the run partitions the entries: an entry is in the
\* primary output iff its anchor is in the set, and otherwise in the
\* secondary output.
C5_CitationPartition ==
    args.cited # NoAux =>
        /\ ~(pc = "fatal" /\ exc[2] = "analyze_aux")
        /\ pc = "done" =>
             \A i \in OkResults :
                LET in_set == InTuple(results[i].anchor,
                                      AuxAnchors(args.cited[1]))
                IN  /\ in_set <=> InTuple(results[i].text, final_entries)
                    /\ ~in_set <=> InTuple(results[i].text, abandoned_entries)

C7_UnknownCategoryExcluded ==
    /\ \A i \in DOMAIN spans :
          UnknownCategory(SpanText(i)) => results[i].kind = "drop"
    /\ Len(final_entries) + Len(abandoned_entries) = Cardinality(OkResults)
    /\ \A i \in OkResults :
          \/ InTuple(results[i].text, final_entries)
          \/ InTuple(results[i].text, abandoned_entries)
    /\ \A i \in DOMAIN results :
          /\ results[i].kind = "drop" => UnknownCategory(SpanText(i))
          /\ (results[i].kind = "raise") => (i = Len(results) /\ pc = "fatal")

\* C7 happens: a run has ended normally after dropping a span of unknown
\* category that an entry follows.
C7_Witness ==
    /\ pc = "done"
    /\ \E i \in DOMAIN results : \E j \in DOMAIN results :
          /\ i < j
          /\ UnknownCategory(SpanText(i)) /\ results[i].kind = "drop"
          /\ results[j].kind = "ok"
          /\ InTuple(results[j].text, final_entries)

\* C8: normalizing the text of a normalized entry returns the same text,
\* unless its note carries the time-of-normalization stamp.
C8_Idempotent ==
    (epc = "renormalized" /\ ~IsSubstr(Accessed, first.text))
    => (second.kind = "ok" /\ second.text = first.text)

\* C9: an entry made of a title and a pages assignment is emitted, with
\* the written pages value unchanged when it is one integer, first--second
\* when it is two integers around dashes, and otherwise unchanged with a
\* format warning.
C9_PagesRule ==
    (/\ epc \in {"normalized", "renormalized"}
     /\ Len(esegs) = 2 /\ esegs[1] = sTitle /\ esegs[2] \in PagesSegs)
    => /\ first.kind = "ok"
       /\ EmittedValue(first.text, aPages)
             = ExpectedPages(WrittenValue(esegs[2]))
       /\ MalformedPages(WrittenValue(esegs[2]))
             => "pages format" \in first.warns

\* C10: for an entry whose values are all wrapped in braces or quotes, the
\* splitter returns the anchor and then each assignment exactly as written.
C10_SplitterExact ==
    (/\ epc \in {"normalized", "renormalized"}
     /\ \A i \in DOMAIN esegs : esegs[i] \in WrappedSegs)
    => /\ SplitAttrs(Content(Entry)).exc = ""
       /\ SplitAttrs(Content(Entry)).merged = <<>>
       /\ SplitAttrs(Content(Entry)).attrs = <<EntryAnchor>> \o esegs

=============================================================================
